---- MODULE Spec2Model ----
(***************************************************************************)
(* Model of timesheet.py: the report engine (is_complete, WorkEvent,       *)
(* PayPeriod, the aggregation helpers, report) and the command-line entry  *)
(* point main with its top-level exception handler.                        *)
(*                                                                         *)
(* Text is modelled by TLA+ strings.  A float number of hours is modelled  *)
(* as an integer number of ticks, TicksPerCent ticks to 0.01 hour, so that *)
(* 20 minutes (0.333333 h) is 100 ticks and formatting with '.2f' is a     *)
(* real rounding step that never meets a tie.  A formatted cell is a       *)
(* record [k, s, v]: k names the format, s holds literal text and v the    *)
(* formatted numbers.                                                      *)
(***************************************************************************)
EXTENDS Integers, Sequences, FiniteSets, TLC

VARIABLES pay_period, pto, save_flag, raw_data, runs, stdout, saved, log,
          exit_status

vars == <<pay_period, pto, save_flag, raw_data, runs, stdout, saved, log,
          exit_status>>

----------------------------------------------------------------------------
(* Bounds of the model *)

MaxRows == 2

MaxRuns == 2

----------------------------------------------------------------------------
(* Numbers and text *)

TicksPerCent == 3

TicksPerHour == 100 * TicksPerCent

HOLIDAY_HOURS == 8

NAME == "NAME"

HOLIDAY_PROJECT == "Holiday"

Abs(x) == IF x < 0 THEN -x ELSE x

\* n / d rounded to the nearest integer, ties to even (d # 0)
RoundDiv(n, d) ==
    LET nn == IF d < 0 THEN -n ELSE n
        dd == IF d < 0 THEN -d ELSE d
        q  == nn \div dd
        r  == nn - q * dd
    IN  IF 2 * r < dd THEN q
        ELSE IF 2 * r > dd THEN q + 1
        ELSE IF q % 2 = 0 THEN q ELSE q + 1

\* f'{x:.2f}' of x ticks: the number of hundredths printed
Fixed2(x) == RoundDiv(x, TicksPerCent)

\* f'{(a / b) * 100:.1f}': the number of tenths of a percent printed
Percent1(a, b) == RoundDiv(1000 * a, b)

Text(s) == [k |-> "text", s |-> s, v |-> <<>>]

\* date.fromisoformat: the fields of the texts of the form YYYY-MM-DD
IsoFields ==
    ("2024-01-01" :> <<2024, 1, 1>>)   @@ ("2024-01-05" :> <<2024, 1, 5>>) @@
    ("2024-01-15" :> <<2024, 1, 15>>)  @@ ("2024-01-16" :> <<2024, 1, 16>>) @@
    ("2024-01-31" :> <<2024, 1, 31>>)  @@ ("2024-01-32" :> <<2024, 1, 32>>) @@
    ("2024-02-05" :> <<2024, 2, 5>>)   @@ ("2023-01-16" :> <<2023, 1, 16>>)

IsLeap(y) == (y % 4 = 0 /\ y % 100 # 0) \/ y % 400 = 0

DaysInMonth(y, m) ==
    IF m = 2 THEN (IF IsLeap(y) THEN 29 ELSE 28)
    ELSE IF m \in {4, 6, 9, 11} THEN 30 ELSE 31

fromisoformat_raises(s) ==
    \/ s \notin DOMAIN IsoFields
    \/ LET f == IsoFields[s]
       IN  \/ f[1] < 1 \/ f[1] > 9999
           \/ f[2] < 1 \/ f[2] > 12
           \/ f[3] < 1 \/ f[3] > DaysInMonth(f[1], f[2])

fromisoformat(s) ==
    [year |-> IsoFields[s][1], month |-> IsoFields[s][2], day |-> IsoFields[s][3]]

\* float(): the value, in ticks, of the texts that are numbers
FloatTicks ==
    ("0" :> 0) @@ ("8" :> 8 * TicksPerHour) @@ ("-8" :> -8 * TicksPerHour) @@
    ("0.333333" :> 100)

float_raises(s) == s \notin DOMAIN FloatTicks

float(s) == FloatTicks[s]

DateLess(a, b) ==
    \/ a.year < b.year
    \/ a.year = b.year /\ a.month < b.month
    \/ a.year = b.year /\ a.month = b.month /\ a.day < b.day

\* f'{date:%m/%d/%Y}'
date_string(d) == [k |-> "date", s |-> "", v |-> <<d.month, d.day, d.year>>]

\* f'{hours:.2f}'
hours_string(x) == [k |-> "f2", s |-> "", v |-> <<Fixed2(x)>>]

----------------------------------------------------------------------------
(* Rows of the spreadsheet *)

\* a variant that checks the length of the row alone
is_complete_length_only(row) == Len(row) >= 6

is_complete(row) == Len(row) >= 6 /\ \A i \in 1..6 : row[i] # ""

_date(row) == row[1]
_duration(row) == row[4]
_project(row) == row[5]
_class(row) == row[6]

WorkEvent_raises(event) ==
    fromisoformat_raises(_date(event)) \/ float_raises(_duration(event))

WorkEvent(event) ==
    [date     |-> fromisoformat(_date(event)),
     duration |-> float(_duration(event)),
     project  |-> _project(event),
     cls      |-> _class(event)]

PayPeriod(year, month, period) ==
    [year |-> year, month |-> month, period |-> period]

\* a variant that compares the year and the day but not the month
contains_any_month(pp, work_event) ==
    IF work_event.date.year # pp.year
    THEN FALSE
    ELSE IF pp.period = 1 THEN work_event.date.day <= 15
    ELSE work_event.date.day > 15

\* PayPeriod.__contains__
contains(pp, work_event) ==
    IF work_event.date.year # pp.year \/ work_event.date.month # pp.month
    THEN FALSE
    ELSE IF pp.period = 1 THEN work_event.date.day <= 15
    ELSE work_event.date.day > 15

\* PayPeriod.fancy_repr
fancy_repr(pp) == [k |-> "period", s |-> "", v |-> <<pp.month, pp.year, pp.period>>]

----------------------------------------------------------------------------
(* Aggregation *)

RECURSIVE SumDurations(_)
\* sum(event.duration for event in events)
SumDurations(events) ==
    IF events = <<>> THEN 0
    ELSE Head(events).duration + SumDurations(Tail(events))

\* a variant that leaves the holidays among the work days
_split_events_keep_holidays(work_events) ==
    [work_days |-> work_events,
     holidays  |-> SelectSeq(work_events, LAMBDA e : e.project = HOLIDAY_PROJECT)]

_split_events(work_events) ==
    [work_days |-> SelectSeq(work_events, LAMBDA e : e.project # HOLIDAY_PROJECT),
     holidays  |-> SelectSeq(work_events, LAMBDA e : e.project = HOLIDAY_PROJECT)]

\* a variant that sums the events of every date
_daily_report_all_dates(date, work_events) ==
    <<date_string(date), hours_string(SumDurations(work_events))>>

_daily_report(date, work_events) ==
    LET daily_hours == SumDurations(SelectSeq(work_events, LAMBDA e : e.date = date))
    IN  <<date_string(date), hours_string(daily_hours)>>

\* total_hours = 0 makes the division of line 168 raise ZeroDivisionError
_project_report_raises(work_events) == SumDurations(work_events) = 0

_project_report(project, cls, work_events) ==
    LET proj_class_events ==
            SelectSeq(work_events, LAMBDA e : e.project = project /\ e.cls = cls)
        total_hours == SumDurations(work_events)
        proj_class_hours == SumDurations(proj_class_events)
    IN  <<Text(project), Text(cls), hours_string(proj_class_hours),
          [k |-> "f1", s |-> "", v |-> <<Percent1(proj_class_hours, total_hours)>>]>>

_holiday_report(holidays) ==
    IF holidays = <<>> THEN <<>>
    ELSE <<  <<Text("Paid holidays")>>  >>
         \o [i \in 1..Len(holidays) |->
                <<date_string(holidays[i].date), Text(holidays[i].cls)>>]
         \o << <<>> >>

_pto_report(hours) ==
    IF hours = 0 THEN <<>>
    ELSE << <<[k |-> "pto", s |-> " hours of PTO used this pay period", v |-> <<hours>>]>>,
            <<>> >>

RECURSIVE SortedDates_descending(_)
\* a variant that sorts the latest date first
SortedDates_descending(S) ==
    IF S = {} THEN <<>>
    ELSE LET last == CHOOSE d \in S : \A e \in S : e = d \/ DateLess(e, d)
         IN  <<last>> \o SortedDates_descending(S \ {last})

RECURSIVE SortedDates(_)
\* list(set(dates)) followed by sort()
SortedDates(S) ==
    IF S = {} THEN <<>>
    ELSE LET first == CHOOSE d \in S : \A e \in S : e = d \/ DateLess(d, e)
         IN  <<first>> \o SortedDates(S \ {first})

\* list(set(...)): the orders in which a set may be iterated
SetOrders(S) ==
    {f \in [1..Cardinality(S) -> S] : \A i, j \in 1..Cardinality(S) : f[i] = f[j] => i = j}

Range(f) == {f[i] : i \in DOMAIN f}

\* the events report() builds and keeps (lines 195-197)
AllEvents(raw) ==
    LET rows == SelectSeq(raw, is_complete)
    IN  [i \in 1..Len(rows) |-> WorkEvent(rows[i])]

PeriodEvents(pp, raw) == SelectSeq(AllEvents(raw), LAMBDA e : contains(pp, e))

\* the (project, class) pairs collected at lines 206-207
ProjClasses(pp, raw) ==
    {<<e.project, e.cls>> : e \in Range(_split_events(PeriodEvents(pp, raw)).work_days)}

\* the exception report() raises, "" when it returns
report_raises(pp, raw, pto_hours) ==
    IF \E i \in 1..Len(raw) : is_complete(raw[i]) /\ WorkEvent_raises(raw[i])
    THEN "ValueError"
    ELSE LET work_events == _split_events(PeriodEvents(pp, raw)).work_days
         IN  IF work_events # <<>> /\ _project_report_raises(work_events)
             THEN "ZeroDivisionError"
             ELSE ""

\* the rows report() returns; proj_classes is list(set(proj_classes)) of line 207
report(pp, raw, pto_hours, proj_classes) ==
    LET split == _split_events(PeriodEvents(pp, raw))
        work_events == split.work_days
        holidays == split.holidays
        work_days == SortedDates({e.date : e \in Range(work_events)})
        daily_reports == [i \in 1..Len(work_days) |-> _daily_report(work_days[i], work_events)]
        project_reports ==
            [i \in 1..Len(proj_classes) |->
                _project_report(proj_classes[i][1], proj_classes[i][2], work_events)]
        holiday_report == _holiday_report(holidays)
        holiday_hours == HOLIDAY_HOURS * Len(holidays)
        pto_report == _pto_report(pto_hours)
        headers == << <<Text("Timesheet for " \o NAME)>>, <<fancy_repr(pp)>>, <<>> >>
        total_hours ==
            SumDurations(work_events) + (pto_hours + holiday_hours) * TicksPerHour
        summary == [k |-> "total", s |-> "", v |-> <<Fixed2(total_hours)>>]
    IN  headers
        \o << <<Text("Date"), Text("Hours")>> >>
        \o daily_reports
        \o << <<>> >>
        \o << <<Text("Project"), Text("Class"), Text("Hours"),
                Text("% of total worked hours")>> >>
        \o project_reports
        \o << <<>> >>
        \o holiday_report
        \o pto_report
        \o << <<summary>> >>

----------------------------------------------------------------------------
(* The program: main() run from the command line *)

RowValues ==
    { <<"2024-01-05", "9:00", "17:00", "8", "A", "Dev", "note">>,
      <<"2024-01-05", "9:00", "9:20", "0.333333", "B", "QA">>,
      <<"2024-01-15", "9:00", "9:20", "0.333333", "B", "QA">>,
      <<"2024-01-15", "9:00", "9:00", "0", "A", "Dev">>,
      <<"2024-01-05", "17:00", "9:00", "-8", "A", "Dev">>,
      <<"2024-01-16", "9:00", "17:00", "8", "B", "QA">>,
      <<"2024-01-31", "9:00", "9:20", "0.333333", "A", "Dev">>,
      <<"2024-01-01", "9:00", "9:00", "0", "Holiday", "New Year">>,
      <<"2024-01-16", "9:00", "9:20", "0.333333", "Holiday", "Floating">>,
      <<"2024-02-05", "9:00", "17:00", "8", "A", "Dev">>,
      <<"2023-01-16", "9:00", "17:00", "8", "A", "Dev">>,
      <<"2024-01-32", "9:00", "17:00", "8", "A", "Dev">>,
      <<"2024-01-05", "9:00", "17:00", "n/a", "A", "Dev">>,
      <<"2024-01-05", "9:00", "17:00", "8", "A">>,
      <<"2024-01-05", "9:00", "", "n/a", "A", "Dev">> }

SeqsUpTo(S, n) == UNION {[1..k -> S] : k \in 0..n}

PtoValues == {-1, 0, 8}

PayPeriods == {PayPeriod(2024, 1, p) : p \in {1, 2}}

NoFiles == [timesheet |-> <<>>, raw |-> <<>>, written |-> FALSE]

Init ==
    /\ pay_period \in PayPeriods
    /\ pto \in PtoValues
    /\ save_flag \in BOOLEAN
    /\ raw_data \in SeqsUpTo(RowValues, MaxRows)
    /\ runs = 0
    /\ stdout = <<>>
    /\ saved = NoFiles
    /\ log = <<>>
    /\ exit_status = -1

\* a variant whose handler logs the error and leaves the exit status 0
MainReportRaises_exit0 ==
    /\ runs < MaxRuns
    /\ report_raises(pay_period, raw_data, pto) # ""
    /\ runs' = runs + 1
    /\ log' = Append(log, report_raises(pay_period, raw_data, pto))
    /\ exit_status' = 0
    /\ UNCHANGED <<pay_period, pto, save_flag, raw_data, stdout, saved>>

\* report() raises: the handler of line 280 logs the traceback and exits 1
MainReportRaises ==
    /\ runs < MaxRuns
    /\ report_raises(pay_period, raw_data, pto) # ""
    /\ runs' = runs + 1
    /\ log' = Append(log, report_raises(pay_period, raw_data, pto))
    /\ exit_status' = 1
    /\ UNCHANGED <<pay_period, pto, save_flag, raw_data, stdout, saved>>

\* report() returns, --save is given and _check_dirs() finds no directory
MainSaveRaises ==
    /\ runs < MaxRuns
    /\ report_raises(pay_period, raw_data, pto) = ""
    /\ save_flag
    /\ runs' = runs + 1
    /\ log' = Append(log, "FileNotFoundError")
    /\ exit_status' = 1
    /\ UNCHANGED <<pay_period, pto, save_flag, raw_data, stdout, saved>>

\* report() returns; the report is saved if asked and written to stdout
MainWrites ==
    /\ runs < MaxRuns
    /\ report_raises(pay_period, raw_data, pto) = ""
    /\ \E proj_classes \in SetOrders(ProjClasses(pay_period, raw_data)) :
         LET final_report == report(pay_period, raw_data, pto, proj_classes)
         IN  /\ stdout' = Append(stdout, final_report)
             /\ saved' = IF save_flag
                         THEN [timesheet |-> final_report, raw |-> raw_data,
                               written |-> TRUE]
                         ELSE saved
    /\ runs' = runs + 1
    /\ exit_status' = 0
    /\ UNCHANGED <<pay_period, pto, save_flag, raw_data, log>>

Main == MainReportRaises \/ MainSaveRaises \/ MainWrites

Next == Main

Spec == Init /\ [][Next]_vars

----------------------------------------------------------------------------
(* Reading a written report: its tables, blocks and total *)

RECURSIVE BlockFrom(_, _)
\* the rows of rep from row i up to the next empty row
BlockFrom(rep, i) ==
    IF i > Len(rep) \/ rep[i] = <<>> THEN <<>>
    ELSE <<rep[i]>> \o BlockFrom(rep, i + 1)

DailyHeaderAt == 4
DailyTable(rep) == BlockFrom(rep, DailyHeaderAt + 1)
ProjectHeaderAt(rep) == DailyHeaderAt + Len(DailyTable(rep)) + 2
ProjectTable(rep) == BlockFrom(rep, ProjectHeaderAt(rep) + 1)
AfterTables(rep) == ProjectHeaderAt(rep) + Len(ProjectTable(rep)) + 2
HasHolidayBlock(rep) ==
    \E i \in 1..Len(rep) : Len(rep[i]) = 1 /\ rep[i][1] = Text("Paid holidays")
\* the date rows under 'Paid holidays'
HolidayRows(rep) ==
    IF HasHolidayBlock(rep) THEN BlockFrom(rep, AfterTables(rep) + 1) ELSE <<>>
PtoNotes(rep) == {i \in 1..Len(rep) : Len(rep[i]) = 1 /\ rep[i][1].k = "pto"}
SummaryCents(rep) == rep[Len(rep)][1].v[1]

RECURSIVE SumHours(_)
\* the sum, in hundredths, of the Hours column of a daily table
SumHours(rows) ==
    IF rows = <<>> THEN 0 ELSE Head(rows)[2].v[1] + SumHours(Tail(rows))

RECURSIVE SumProjectHours(_)
\* the sum, in hundredths, of the Hours column of a project table
SumProjectHours(rows) ==
    IF rows = <<>> THEN 0 ELSE Head(rows)[3].v[1] + SumProjectHours(Tail(rows))

\* the date a 'MM/DD/YYYY' cell shows, as <<year, month, day>>
CellDate(cell) == <<cell.v[3], cell.v[1], cell.v[2]>>

----------------------------------------------------------------------------
(* The words of the claims, read off the raw rows *)

ValidDateTexts ==
    {"2024-01-01", "2024-01-05", "2024-01-15", "2024-01-16", "2024-01-31",
     "2024-02-05", "2023-01-16"}

NumberTexts == {"0", "8", "-8", "0.333333"}

Sparse(row) == Len(row) < 6 \/ \E i \in 1..6 : row[i] = ""

Corrupt(row) ==
    ~Sparse(row) /\ (row[1] \notin ValidDateTexts \/ row[4] \notin NumberTexts)

NoCorruptRow == \A i \in 1..Len(raw_data) : ~Corrupt(raw_data[i])

Dense(raw) == SelectSeq(raw, LAMBDA row : ~Sparse(row))

RowDate(row) == IsoFields[row[1]]

RowTicks(row) == FloatTicks[row[4]]

InHalfMonth(ymd) ==
    /\ ymd[1] = pay_period.year
    /\ ymd[2] = pay_period.month
    /\ pay_period.period = 1 => ymd[3] <= 15
    /\ pay_period.period = 2 => ymd[3] > 15

\* the rows whose events are complete and inside the pay period
Admitted ==
    {i \in 1..Len(raw_data) :
        ~Sparse(raw_data[i]) /\ ~Corrupt(raw_data[i]) /\ InHalfMonth(RowDate(raw_data[i]))}

AdmittedWork == {i \in Admitted : raw_data[i][5] # "Holiday"}

AdmittedHolidays == {i \in Admitted : raw_data[i][5] = "Holiday"}

RECURSIVE TicksOf(_)
TicksOf(I) ==
    IF I = {} THEN 0
    ELSE LET i == CHOOSE j \in I : TRUE
         IN  RowTicks(raw_data[i]) + TicksOf(I \ {i})

WorkedTicks == TicksOf(AdmittedWork)

WorkDates == {RowDate(raw_data[i]) : i \in AdmittedWork}

TupleLess(a, b) ==
    \/ a[1] < b[1]
    \/ a[1] = b[1] /\ a[2] < b[2]
    \/ a[1] = b[1] /\ a[2] = b[2] /\ a[3] < b[3]

\* x ticks shown in hundredths of an hour: c is the nearest hundredth
ShowsCents(c, x) == Abs(TicksPerCent * c - x) * 2 < TicksPerCent

Reports == {stdout[k] : k \in DOMAIN stdout}

----------------------------------------------------------------------------
(* C1 *)

\* C1 (as stated): in every report written, the hours of the daily rows and
\* the hours of the project rows have the same sum, and that sum is the sum
\* of the durations of the complete, in-period, non-Holiday events (shown
\* to 0.01 h).
C1_SumsEqual ==
    \A rep \in Reports :
        /\ SumHours(DailyTable(rep)) = SumProjectHours(ProjectTable(rep))
        /\ ShowsCents(SumHours(DailyTable(rep)), WorkedTicks)

\* C1 (amended): each table's hours are per-group sums rounded to 0.01 h, so
\* each table's sum is within 0.005 h per row of the sum of the durations of
\* the complete, in-period, non-Holiday events; the three sums are equal
\* when every such duration is a whole number of hundredths of an hour.
C1_SumsWithinRounding ==
    \A rep \in Reports :
        LET D == DailyTable(rep)
            P == ProjectTable(rep)
        IN  /\ 2 * Abs(TicksPerCent * SumHours(D) - WorkedTicks) <= TicksPerCent * Len(D)
            /\ 2 * Abs(TicksPerCent * SumProjectHours(P) - WorkedTicks)
                   <= TicksPerCent * Len(P)
            /\ (\A i \in AdmittedWork : RowTicks(raw_data[i]) % TicksPerCent = 0)
                   => /\ SumHours(D) = SumProjectHours(P)
                      /\ TicksPerCent * SumHours(D) = WorkedTicks

C1_Witness ==
    \E rep \in Reports :
        /\ Len(DailyTable(rep)) = 2
        /\ Len(ProjectTable(rep)) = 1
        /\ SumHours(DailyTable(rep)) # SumProjectHours(ProjectTable(rep))

----------------------------------------------------------------------------
(* C2 *)

\* C2: an event is in the pay period only if its year and month are the
\* period's and its day is <= 15 for period 1, > 15 for period 2; every date
\* of the daily table and of the holiday block of a written report lies in
\* the requested half-month.
C2_OnlyRequestedHalfMonth ==
    /\ \A i \in 1..Len(raw_data) :
          (is_complete(raw_data[i]) /\ ~WorkEvent_raises(raw_data[i])
              /\ contains(pay_period, WorkEvent(raw_data[i])))
          => InHalfMonth(RowDate(raw_data[i]))
    /\ \A rep \in Reports :
          /\ \A i \in 1..Len(DailyTable(rep)) :
                InHalfMonth(CellDate(DailyTable(rep)[i][1]))
          /\ \A i \in 1..Len(HolidayRows(rep)) :
                InHalfMonth(CellDate(HolidayRows(rep)[i][1]))

C2_Witness ==
    \E rep \in Reports :
        /\ DailyTable(rep) # <<>>
        /\ \E i \in 1..Len(raw_data) :
              /\ ~Sparse(raw_data[i]) /\ ~Corrupt(raw_data[i])
              /\ ~InHalfMonth(RowDate(raw_data[i]))
              /\ RowDate(raw_data[i])[2] # pay_period.month

----------------------------------------------------------------------------
(* C3 *)

\* C3: a row with fewer than 6 fields or an empty field among its first 6
\* makes no event and raises nothing, even with unparsable date or duration
\* text: a run ends as it would on the input without such rows, and every
\* report written is the report of the input without such rows.
C3_SparseRowsDropped ==
    /\ \A i \in 1..Len(raw_data) : Sparse(raw_data[i]) => ~is_complete(raw_data[i])
    /\ NoCorruptRow => Len(AllEvents(raw_data)) = Len(Dense(raw_data))
    /\ \A j \in DOMAIN log :
          log[j] = "FileNotFoundError"
          \/ log[j] = report_raises(pay_period, Dense(raw_data), pto)
    /\ Reports # {} => report_raises(pay_period, Dense(raw_data), pto) = ""
    /\ \A rep \in Reports :
          \E o \in SetOrders(ProjClasses(pay_period, Dense(raw_data))) :
              rep = report(pay_period, Dense(raw_data), pto, o)

C3_Witness ==
    /\ Reports # {}
    /\ Admitted # {}
    /\ \E i \in 1..Len(raw_data) :
          /\ Len(raw_data[i]) >= 6
          /\ Sparse(raw_data[i])
          /\ raw_data[i][4] \notin NumberTexts

----------------------------------------------------------------------------
(* C4 *)

HolidayRow(row) == Len(row) >= 5 /\ row[5] = "Holiday"

WithoutHolidays(raw) == SelectSeq(raw, LAMBDA row : ~HolidayRow(row))

\* C4: each admitted Holiday event adds exactly 8 hours to the total whatever
\* its duration and shows only in the 'Paid holidays' block: the daily table
\* and the project table (rows, hours and percentages) are those of the input
\* without the Holiday rows, and the total is that input's total plus 8 hours
\* per admitted Holiday event.
C4_HolidayCreditOnly ==
    \A rep \in Reports :
        /\ \E o \in SetOrders(ProjClasses(pay_period, WithoutHolidays(raw_data))) :
              LET ref == report(pay_period, WithoutHolidays(raw_data), pto, o)
              IN  /\ DailyTable(rep) = DailyTable(ref)
                  /\ ProjectTable(rep) = ProjectTable(ref)
                  /\ SummaryCents(rep)
                        = SummaryCents(ref) + 800 * Cardinality(AdmittedHolidays)
        /\ HasHolidayBlock(rep) <=> AdmittedHolidays # {}
        /\ Len(HolidayRows(rep)) = Cardinality(AdmittedHolidays)
        /\ \A i \in 1..Len(ProjectTable(rep)) : ProjectTable(rep)[i][1] # Text("Holiday")

C4_Witness ==
    \E rep \in Reports :
        /\ DailyTable(rep) # <<>>
        /\ \E i \in AdmittedHolidays : raw_data[i][4] # "8"

----------------------------------------------------------------------------
(* C5 *)

\* C5: runs on identical (pay period, rows, pto) write identical reports,
\* the order of the project rows included.
C5_SameReportEveryRun ==
    \A i, j \in DOMAIN stdout : stdout[i] = stdout[j]

----------------------------------------------------------------------------
(* C6 *)

\* C6: with a complete row whose date or duration is unparsable, inside the
\* requested pay period or not, every run fails as a whole: nothing is
\* written to stdout, nothing is saved, the error is logged and the exit
\* status is 1.
C6_CorruptRowFailsRun ==
    (runs > 0 /\ ~NoCorruptRow) =>
        /\ stdout = <<>>
        /\ saved = NoFiles
        /\ Len(log) = runs
        /\ \A j \in DOMAIN log : log[j] = "ValueError"
        /\ exit_status = 1

C6_Witness ==
    /\ runs > 0
    /\ exit_status = 1
    /\ save_flag
    /\ Admitted # {}
    /\ \E i \in 1..Len(raw_data) :
          /\ Corrupt(raw_data[i])
          /\ raw_data[i][1] \in ValidDateTexts
          /\ ~InHalfMonth(RowDate(raw_data[i]))

----------------------------------------------------------------------------
(* C7 *)

\* C7: when a non-Holiday event is admitted and the admitted non-Holiday
\* durations sum to zero, report() raises no computational fault: a report
\* is returned (and written unless saving fails).
C7_ZeroTotalReported ==
    (runs > 0 /\ NoCorruptRow /\ AdmittedWork # {} /\ WorkedTicks = 0) =>
        /\ \A j \in DOMAIN log : log[j] # "ZeroDivisionError"
        /\ exit_status = 0 => stdout # <<>>

----------------------------------------------------------------------------
(* C8 *)

\* C8: when no event is admitted, report() succeeds, both tables are their
\* header rows alone, there is no holiday block, the total is the pto hours
\* and the PTO note is there exactly when pto > 0.
C8_EmptyPeriodReport ==
    (runs > 0 /\ NoCorruptRow /\ Admitted = {}) =>
        /\ \A j \in DOMAIN log : log[j] = "FileNotFoundError"
        /\ exit_status = 0 => stdout # <<>>
        /\ \A rep \in Reports :
              /\ rep[DailyHeaderAt] = <<Text("Date"), Text("Hours")>>
              /\ DailyTable(rep) = <<>>
              /\ rep[ProjectHeaderAt(rep)]
                    = <<Text("Project"), Text("Class"), Text("Hours"),
                        Text("% of total worked hours")>>
              /\ ProjectTable(rep) = <<>>
              /\ ~HasHolidayBlock(rep)
              /\ SummaryCents(rep) = 100 * pto
              /\ (PtoNotes(rep) # {}) <=> (pto > 0)
              /\ \A i \in PtoNotes(rep) : rep[i][1].v = <<pto>>

----------------------------------------------------------------------------
(* C9 *)

\* C9: every event built from a complete row has duration >= 0, and no
\* daily row or project row of a written report shows negative hours.
C9_DurationsNonNegative ==
    (runs > 0 /\ NoCorruptRow) =>
        /\ \A i \in 1..Len(AllEvents(raw_data)) : AllEvents(raw_data)[i].duration >= 0
        /\ \A rep \in Reports :
              /\ \A i \in 1..Len(DailyTable(rep)) : DailyTable(rep)[i][2].v[1] >= 0
              /\ \A i \in 1..Len(ProjectTable(rep)) : ProjectTable(rep)[i][3].v[1] >= 0

----------------------------------------------------------------------------
(* C10 *)

\* C10: the daily table of a written report has one row per distinct date of
\* the admitted non-Holiday events, in strictly ascending date order whatever
\* the order and multiplicity of the input rows, and each row shows (to
\* 0.01 h) the sum of the durations of the admitted non-Holiday events of
\* its date.
C10_DailyTableByDate ==
    \A rep \in Reports :
        LET D == DailyTable(rep)
        IN  /\ Len(D) = Cardinality(WorkDates)
            /\ \A i \in 1..Len(D) :
                  /\ Len(D[i]) = 2
                  /\ D[i][1].k = "date"
                  /\ CellDate(D[i][1]) \in WorkDates
                  /\ D[i][2].k = "f2"
                  /\ ShowsCents(D[i][2].v[1],
                        TicksOf({r \in AdmittedWork :
                                    RowDate(raw_data[r]) = CellDate(D[i][1])}))
            /\ \A i, j \in 1..Len(D) :
                  i < j => TupleLess(CellDate(D[i][1]), CellDate(D[j][1]))

C10_Witness ==
    \E rep \in Reports :
        /\ Len(DailyTable(rep)) = 2
        /\ Len(raw_data) >= 2
        /\ {1, 2} \subseteq AdmittedWork
        /\ TupleLess(RowDate(raw_data[2]), RowDate(raw_data[1]))

====
